---- MODULE Spec2Model ----
(***************************************************************************)
(* The job / progress state machine of img-sort as the frontend sources    *)
(* implement it: the API layer (src/src/lib/api/index.ts) with its mock    *)
(* job engine, its progress publish/subscribe channel and its fallback to  *)
(* mock mode, and the analysis store (src/src/features/analysis/store.tsx) *)
(* that drives it.                                                         *)
(*                                                                         *)
(* The Tauri backend behind invoke()/listen() is not part of the sources.  *)
(* The model follows the branches of the API layer that the sources        *)
(* implement (useMock = TRUE), the registration of listeners while         *)
(* useMock = FALSE, and the switch to mock mode when get_settings fails.   *)
(*                                                                         *)
(* Scaling: the mock engine draws 200..499 rows per job and advances by    *)
(* 5..16 rows per timer tick.  The model keeps the shape (every step is    *)
(* at least 1 and smaller than every count, so a job needs several ticks)  *)
(* with the small numbers MaxStep and MaxCount.                            *)
(***************************************************************************)
EXTENDS Integers, Sequences, FiniteSets, TLC

(* ------------------------------ bounds -------------------------------- *)
MaxJobs == 2        \* startAnalysis calls explored in one behaviour
MaxStep == 2        \* largest number of rows one timer tick advances
MaxCount == 3       \* largest number of rows of one job
MaxClients == 1     \* onProgress subscribers besides the store
MaxRows == 3        \* largest number of scored rows a getDistribution call scans
MaxSessions == 2    \* largest concurrency a session pool is built with
MaxItems == 3       \* largest number of images of one pooled job
MaxChunks == 3      \* stream chunks received after a reset of the panel
MaxCalls == 2       \* invocations of startAnalysisNow outside mock mode
MaxLogit == 2    \* the keep and drop logits lie in -MaxLogit .. MaxLogit
MaxScored == 3   \* the images the scorer handles

(* --------------------------- program constants ------------------------ *)
Null == -1          \* mockJobId = null
EmptyJobId == 0     \* the job id "" of the idle progress
NoFile == 0         \* currentFile = undefined
Store == 0          \* the subscriber that is the store's onProgress callback

MinCount == MaxStep + 1
Counts == MinCount .. MaxCount
Steps == 1 .. MaxStep
JobIds == 1 .. MaxJobs
Clients == 1 .. MaxClients
Terminal == {"completed", "canceled", "error"}
ExportStatuses == {"success", "error"}
NoMessage == "undefined"
NoVerdict == "undefined"
None == [none |-> TRUE]
NoName == "null"    \* streamPanel.fileName = null
Calls == 1 .. MaxCalls

VARIABLES
  useMock,            \* index.ts:58
  mockJobId,          \* index.ts:65
  mockRows,           \* index.ts:66
  mockProgress,       \* index.ts:67
  progressListeners,  \* index.ts:63
  tauriListeners,     \* listen() registrations made by onProgress, index.ts:290
  intervals,          \* the setInterval handles that are not cleared, index.ts:249
  uuidCount,          \* number of job ids crypto.randomUUID has produced
  handled,            \* ghost: how often each row index of the live job was counted
  advancedBy,         \* ghost: the intervals that advanced the live job
  delivered,          \* ghost: the progress last passed to each client callback
  lastCall,           \* ghost: the most recent command, what it returned and how
                      \* many progress events it published
  settings,           \* index.ts:74
  sourceRoot,         \* store.tsx:116
  exportRoot,         \* store.tsx:117
  exportManuallySet,  \* store.tsx:245
  storeSettings,      \* store.tsx:120-133: settingsModel, settingsStream,
                      \* settingsConcurrency, settingsEngine, settingsClipFallback
  progress,           \* store.tsx:143
  photos,             \* store.tsx:150
  settingsRequest,    \* the getSettings() call of the mount effect, store.tsx:167
  distribution,       \* the answer of the last getDistribution call, index.ts:333
  lastSave,           \* ghost: the stream and concurrency passed to the last
                      \* saveSettings, the settings it sent to setSettings and
                      \* whether setSettings resolved
  pool,               \* the backend's session pool and the job that uses it
  streamPanel,        \* store.tsx:160
  chunksSeen,         \* ghost: the stream chunks received since the panel was reset
  starting,           \* store.tsx:157
  calls,              \* the invocations of startAnalysisNow outside mock mode and
                      \* the await each one is at
  backendProgress,    \* the job state the backend holds (what get_progress reads)
  snapshotReply,      \* the get_progress call of onProgress, index.ts:292
  valueJudgment       \* the value-judgment step of the scorer: the logits of the
                      \* image scored last and the fields of its PhotoResult

apiVars == <<useMock, mockJobId, mockRows, mockProgress, progressListeners,
             tauriListeners, intervals, uuidCount, handled, advancedBy, delivered,
             lastCall, settings>>

storeVars == <<sourceRoot, exportRoot, exportManuallySet, storeSettings, progress,
               photos, settingsRequest>>

\* the state of the parts that the job engine and the store's handlers above
\* do not touch
asyncVars == <<streamPanel, chunksSeen, starting, calls, backendProgress, snapshotReply>>

otherVars == <<distribution, lastSave, pool, asyncVars, valueJudgment>>

vars == <<apiVars, storeVars, otherVars>>

(* ------------------------------ data ---------------------------------- *)
IdleProgress ==
  [jobId |-> EmptyJobId, status |-> "idle", currentFile |-> NoFile,
   processed |-> 0, total |-> 0, errors |-> 0]

\* One generated row (generateMockRows): the file name is photo_<i>, the export
\* status is drawn at random, the error message is always undefined and
\* isValuable is not set.
MockRow(i, st) ==
  [fileName |-> i, exportStatus |-> st, errorMessage |-> NoMessage,
   isValuable |-> NoVerdict]

generateMockRows(count, sts) ==
  [i \in 1 .. count |-> MockRow(i, sts[i])]

\* Array.prototype.slice(from, to) on a 0-based array, as a 1-based sequence.
Slice(rows, from, to) ==
  LET hi == IF to < Len(rows) THEN to ELSE Len(rows)
  IN  IF from >= hi THEN << >> ELSE SubSeq(rows, from + 1, hi)

RECURSIVE CountErrors(_)
CountErrors(rows) ==
  IF rows = << >> THEN 0
  ELSE (IF Head(rows).exportStatus = "error" THEN 1 ELSE 0) + CountErrors(Tail(rows))

Min(a, b) == IF a < b THEN a ELSE b

\* { ...mockProgress, ...update }
Merge(p, update) ==
  [f \in DOMAIN p |-> IF f \in DOMAIN update THEN update[f] ELSE p[f]]

\* progressListeners.forEach((cb) => cb(p)) for the client callbacks
Notify(p) ==
  [s \in Clients |-> IF s \in progressListeners THEN p ELSE delivered[s]]

\* crypto.randomUUID(): a value no earlier call returned
randomUUID == uuidCount + 1

listPhotos == mockRows
getProgressSnapshot == mockProgress

\* getValueStats(), mock branch
getValueStats == [valuable |-> 0, notValuable |-> 0, unknown |-> 0]

(* ------------------------------ numbers ------------------------------- *)
\* A JavaScript number as far as the concurrency field needs it: an integer,
\* an integer and a half, NaN or an infinity.
Whole(n) == [kind |-> "finite", int |-> n, half |-> FALSE]
Half(n) == [kind |-> "finite", int |-> n, half |-> TRUE]
NaN == [kind |-> "NaN"]
PosInfinity == [kind |-> "Infinity"]
NegInfinity == [kind |-> "-Infinity"]

\* x > n for an integer n
GreaterThan(x, n) ==
  \/ x.kind = "Infinity"
  \/ x.kind = "finite" /\ (x.int > n \/ (x.int = n /\ x.half))

\* x < n for an integer n
LessThan(x, n) ==
  \/ x.kind = "-Infinity"
  \/ x.kind = "finite" /\ x.int < n

\* x || d: 0 and NaN are falsy
OrElse(x, d) ==
  IF x.kind = "NaN" \/ x = Whole(0) THEN Whole(d) ELSE x

\* leaves the fraction in
MathFloor_Identity(x) == x

\* Math.floor(x)
MathFloor(x) == IF x.kind = "finite" THEN Whole(x.int) ELSE x

\* Math.max(n, x) and Math.min(n, x) for an integer n
MathMax(n, x) ==
  IF x.kind = "NaN" THEN x ELSE IF GreaterThan(x, n) THEN x ELSE Whole(n)

MathMin(n, x) ==
  IF x.kind = "NaN" THEN x ELSE IF LessThan(x, n) THEN x ELSE Whole(n)

\* Number.isFinite(x)
IsFinite(x) == x.kind = "finite"

\* the limits of the concurrency and its default, store.tsx:283 and 177
MinConcurrency == 1
MaxConcurrency == 32
DefaultConcurrency == 4

\* DEFAULT_SETTINGS, the fields the model follows
DEFAULT_SETTINGS ==
  [ollamaModel |-> "qwen2.5vl:7b", ollamaStream |-> FALSE,
   analysisConcurrency |-> Whole(DefaultConcurrency),
   analysisEngine |-> "clip", clipFallbackToOllama |-> FALSE]

\* What the backend's get_settings may answer (persisted by an earlier session).
BackendSettings ==
  {DEFAULT_SETTINGS,
   [ollamaModel |-> "", ollamaStream |-> TRUE, analysisConcurrency |-> Whole(MinConcurrency),
    analysisEngine |-> "ollama", clipFallbackToOllama |-> TRUE]}

(* ------------------------------ strings ------------------------------- *)
\* A path is a sequence of characters.  The values a user may type into the
\* two folder fields: nothing, a blank, a folder, a folder with a trailing slash.
RootInputs == {<< >>, <<" ">>, <<"a">>, <<"a", "/">>}

\* the folder name appended by updateSourceRoot, store.tsx:251
ClassifiedDir == <<"/", "classified">>

RECURSIVE TrimStart(_)
TrimStart(s) ==
  IF s # << >> /\ Head(s) = " " THEN TrimStart(Tail(s)) ELSE s

RECURSIVE TrimEnd(_)
TrimEnd(s) ==
  IF s # << >> /\ s[Len(s)] = " " THEN TrimEnd(SubSeq(s, 1, Len(s) - 1)) ELSE s

\* String.prototype.trim
Trim(s) == TrimEnd(TrimStart(s))

\* v.replace(/\/+$/, "")
RECURSIVE StripTrailingSlashes(_)
StripTrailingSlashes(s) ==
  IF s # << >> /\ s[Len(s)] = "/"
  THEN StripTrailingSlashes(SubSeq(s, 1, Len(s) - 1)) ELSE s

(* ------------------------------ the page ------------------------------ *)
\* MainPage: the start button is disabled unless canStart and not isRunning
isRunning == progress.status = "running"
canStart == Trim(sourceRoot) # << >> /\ Trim(exportRoot) # << >>

\* the store's settings fields as the mount effect reads them from a Settings value
FromSettings(s) ==
  [model |-> s.ollamaModel, engine |-> s.analysisEngine,
   clipFallback |-> s.clipFallbackToOllama, stream |-> s.ollamaStream,
   concurrency |-> IF IsFinite(s.analysisConcurrency)
                   THEN s.analysisConcurrency ELSE Whole(DefaultConcurrency)]

\* the useState defaults of the fields
InitialStoreSettings ==
  [model |-> "qwen2.5vl:7b", engine |-> "clip", clipFallback |-> TRUE,
   stream |-> FALSE, concurrency |-> Whole(DefaultConcurrency)]

(* --------------------------- the session pool ------------------------- *)
\* The execution providers of ClipAccelCapabilities.  The accelerators are in
\* the pool's fixed order of preference; "cpu" is the candidate after them.
Accelerators == <<"coreml", "cuda", "rocm", "directml", "openvino">>
Cpu == "cpu"
Providers == {Accelerators[i] : i \in 1 .. Len(Accelerators)} \cup {Cpu}
NoProvider == "none"

\* the callers of one job: one more than the largest pool has sessions, so that
\* a caller can find every session taken
Workers == 1 .. MaxSessions + 1
NoSession == 0
Items == 1 .. MaxItems

\* the execution-provider toggles a job is started with (clipEpCoreml ..
\* clipEpOpenvino); the second is the default
EnabledInputs ==
  {{}, {"coreml"}, {"cuda"}, {"coreml", "cuda"}, {"cuda", "directml", "openvino"}}

\* no pool is built, every provider is reported available, no job runs
PoolIdle ==
  [status |-> "idle", auto |-> TRUE, enabled |-> {}, size |-> 0,
   available |-> [p \in Providers |-> TRUE], candidates |-> << >>, tried |-> << >>,
   provider |-> NoProvider, session |-> [w \in Workers |-> NoSession],
   items |-> 0, pending |-> 0, done |-> 0]

(* ------------------------------ Init ---------------------------------- *)
ApiInit ==
  /\ useMock \in BOOLEAN
  /\ mockJobId = Null
  /\ mockRows = << >>
  /\ mockProgress = IdleProgress
  /\ intervals = {}
  /\ uuidCount = 0
  /\ handled = << >>
  /\ advancedBy = {}
  /\ delivered = [s \in Clients |-> None]
  /\ lastCall = [op |-> "none", arg |-> Null, ret |-> Null, published |-> 0]
  /\ settings = DEFAULT_SETTINGS

StoreFieldsInit ==
  /\ sourceRoot = << >>
  /\ exportRoot = << >>
  /\ exportManuallySet = FALSE
  /\ progress = IdleProgress
  /\ photos = << >>

\* the stream panel before any chunk (store.tsx:164)
ClosedPanel == [fileName |-> NoName, text |-> << >>, isOpen |-> FALSE]

StreamInit ==
  /\ streamPanel = ClosedPanel
  /\ chunksSeen = << >>

\* an invocation of startAnalysisNow that has not been made, and one that has
\* returned
NotCalled == [phase |-> "none", model |-> ""]
Finished == [phase |-> "done", model |-> ""]

\* no startAnalysisNow is under way
StartInit ==
  /\ starting = FALSE
  /\ calls = [i \in Calls |-> NotCalled]

\* the backend holds no job and no get_progress call is open
NoSnapshot == [phase |-> "none", value |-> None]

BackendInit ==
  /\ backendProgress = None
  /\ snapshotReply = NoSnapshot

\* the backend holds no job and the get_progress call that onProgress made for
\* the store's callback (index.ts:292) is not answered yet
BackendMountedInit ==
  /\ backendProgress = None
  /\ snapshotReply = [phase |-> "requested", value |-> None]

\* no getDistribution call has answered yet, nothing has been saved, no pool is
\* built
ResultsInit ==
  /\ distribution = None
  /\ lastSave = None
  /\ pool = PoolIdle

\* no image has been scored
NotScored ==
  [scored |-> 0, enabled |-> FALSE, keep_logit |-> 0, drop_logit |-> 0,
   isValuable |-> NoVerdict, valuableScore |-> 0]

ScorerInit == valueJudgment = NotScored

OtherInit ==
  /\ ResultsInit
  /\ StreamInit
  /\ StartInit
  /\ ScorerInit
  /\ BackendInit

\* The API module on its own: loaded, nothing subscribed, no provider mounted.
Init ==
  /\ ApiInit
  /\ StoreFieldsInit
  /\ progressListeners = {}
  /\ tauriListeners = {}
  /\ storeSettings = InitialStoreSettings
  /\ settingsRequest = "none"
  /\ OtherInit

\* The application after AnalysisProvider has mounted and its effects have run
\* (store.tsx:166-213): getSettings() has been called and onProgress has
\* registered the store's callback.  In mock mode getSettings answers at once
\* with the cached settings and onProgress calls the callback with the idle
\* progress; otherwise the call is pending and the callback is a listen()
\* registration.
AppInit ==
  /\ ApiInit
  /\ StoreFieldsInit
  /\ IF useMock
     THEN /\ progressListeners = {Store}
          /\ tauriListeners = {}
          /\ storeSettings = FromSettings(DEFAULT_SETTINGS)
          /\ settingsRequest = "done"
          /\ BackendInit
     ELSE /\ progressListeners = {}
          /\ tauriListeners = {Store}
          /\ storeSettings = InitialStoreSettings
          /\ settingsRequest = "pending"
          /\ BackendMountedInit
  /\ ResultsInit
  /\ StreamInit
  /\ StartInit
  /\ ScorerInit

(* ------------------------------ mutants ------------------------------- *)
\* Each is one of the definitions of the API layer below with a plausible slip
\* in it; the claims are checked to tell the two apart.

\* forgets that a canceled job must stop the timer as well
TimerStops_OnlyCompleted(p) == p.status = "completed"

\* advances from the step alone instead of from the current count
NextProcessed_FromZero(p, step) == Min(step, p.total)

\* lets the last step run past the total
NextProcessed_Unclamped(p, step) == p.processed + step

\* publishes the errors of the last slice instead of the running sum
NextErrors_SliceOnly(p, slice) == CountErrors(slice)

\* cancels whatever id is passed
CancelMatches_Any(jobId) == mockJobId # Null

\* keeps the counters of the previous job
StartProgress_KeepCounters(jobId, count) ==
  Merge(mockProgress, [jobId |-> jobId, total |-> count, status |-> "running"])

(* ---------------------------- API layer ------------------------------- *)
\* The progress startAnalysis publishes: the fresh record of index.ts:239-245
\* merged with the update of index.ts:248.
StartProgress(jobId, count) ==
  Merge([jobId |-> jobId, status |-> "running", currentFile |-> NoFile,
         processed |-> 0, total |-> 0, errors |-> 0],
        [total |-> count, status |-> "running"])

\* index.ts:250, the interval callback gives up once the status is not running
TimerStops(p) == p.status # "running"

\* index.ts:255
NextProcessed(p, step) == Min(p.processed + step, p.total)

\* index.ts:258 and 262
NextErrors(p, slice) == p.errors + CountErrors(slice)

\* index.ts:278
CancelMatches(jobId) == mockJobId = jobId

\* The store's onProgress callback (store.tsx:199-211) as emitProgress calls it
\* with p: setProgress(p), and on "completed" refreshListAndDistributions(),
\* whose listPhotos() answers with rows.  (The stream panel it closes on a
\* terminal status is closed already: no chunk arrives in mock mode.)
StoreOnProgress(p, rows) ==
  IF Store \in progressListeners
  THEN /\ progress' = p
       /\ photos' = IF p.status = "completed" THEN rows ELSE photos
  ELSE UNCHANGED <<progress, photos,
                 valueJudgment>>

\* startAnalysis(input), mock branch; the mock engine does not read input
StartAnalysisApi(count, sts) ==
  /\ useMock
  /\ uuidCount < MaxJobs
  /\ LET jobId == randomUUID
         p == StartProgress(jobId, count)
     IN  /\ uuidCount' = jobId
         /\ mockJobId' = jobId
         /\ mockRows' = generateMockRows(count, sts)
         /\ mockProgress' = p
         /\ delivered' = Notify(p)
         /\ intervals' = intervals \cup {jobId}
         /\ handled' = [i \in 1 .. count |-> 0]
         /\ advancedBy' = {}
         /\ lastCall' = [op |-> "startAnalysis", arg |-> Null, ret |-> jobId,
                          published |-> 1]
  /\ UNCHANGED <<useMock, progressListeners, tauriListeners, settings,
                 valueJudgment>>

StartAnalysis(count, sts) ==
  /\ StartAnalysisApi(count, sts)
  /\ StoreOnProgress(mockProgress', photos)
  /\ UNCHANGED <<sourceRoot, exportRoot, exportManuallySet, storeSettings,
                 settingsRequest, otherVars>>

\* the setInterval callback of the interval t
Tick(t, step) ==
  /\ t \in intervals
  /\ IF TimerStops(mockProgress)
     THEN /\ intervals' = intervals \ {t}
          /\ UNCHANGED <<mockProgress, delivered, handled, advancedBy, progress, photos,
                 valueJudgment>>
     ELSE LET nextProcessed == NextProcessed(mockProgress, step)
              slice == Slice(mockRows, mockProgress.processed, nextProcessed)
              lastFile == IF Len(slice) > 0 THEN slice[Len(slice)].fileName ELSE NoFile
              p1 == Merge(mockProgress,
                          [processed |-> nextProcessed, currentFile |-> lastFile,
                           errors |-> NextErrors(mockProgress, slice)])
              done == nextProcessed >= p1.total
              p2 == IF done
                    THEN Merge(p1, [status |-> "completed", currentFile |-> NoFile])
                    ELSE p1
          IN  /\ mockProgress' = p2
              /\ delivered' = Notify(p2)
              /\ StoreOnProgress(p2, mockRows)
              /\ intervals' = IF done THEN intervals \ {t} ELSE intervals
              /\ handled' = [i \in DOMAIN handled |->
                               IF i > mockProgress.processed /\ i <= nextProcessed
                               THEN handled[i] + 1 ELSE handled[i]]
              /\ advancedBy' = advancedBy \cup {t}
  /\ UNCHANGED <<useMock, mockJobId, mockRows, progressListeners, tauriListeners,
                 uuidCount, lastCall, settings, sourceRoot, exportRoot,
                 exportManuallySet, storeSettings, settingsRequest, otherVars>>

\* cancelAnalysis(jobId), mock branch
CancelAnalysis(jobId) ==
  /\ useMock
  /\ IF CancelMatches(jobId)
     THEN LET p == Merge(mockProgress, [status |-> "canceled"])
          IN  /\ mockProgress' = p
              /\ delivered' = Notify(p)
              /\ StoreOnProgress(p, mockRows)
              /\ lastCall' = [op |-> "cancelAnalysis", arg |-> jobId, ret |-> Null,
                               published |-> 1]
     ELSE /\ UNCHANGED <<mockProgress, delivered, progress, photos,
                 valueJudgment>>
          /\ lastCall' = [op |-> "cancelAnalysis", arg |-> jobId, ret |-> Null,
                          published |-> 0]
  /\ UNCHANGED <<useMock, mockJobId, mockRows, progressListeners, tauriListeners,
                 intervals, uuidCount, handled, advancedBy, settings, sourceRoot,
                 exportRoot, exportManuallySet, storeSettings, settingsRequest,
                 otherVars>>

\* onProgress(cb) for the callback of client s.  In mock mode the callback joins
\* progressListeners and is called with the current progress.  Otherwise it is
\* registered with listen(); the snapshot then comes from the backend's
\* get_progress, which answers null while the backend holds no job, and nothing
\* is delivered.
OnProgress(s) ==
  /\ s \notin progressListeners \cup tauriListeners
  /\ IF useMock
     THEN /\ progressListeners' = progressListeners \cup {s}
          /\ delivered' = [delivered EXCEPT ![s] = mockProgress]
          /\ UNCHANGED tauriListeners
     ELSE /\ tauriListeners' = tauriListeners \cup {s}
          /\ UNCHANGED <<progressListeners, delivered,
                 valueJudgment>>
  /\ UNCHANGED <<useMock, mockJobId, mockRows, mockProgress, intervals, uuidCount,
                 handled, advancedBy, lastCall, settings, storeVars, otherVars>>

\* the function onProgress returned: it undoes the registration that call made
Unsubscribe(s) ==
  /\ s \in progressListeners \cup tauriListeners
  /\ progressListeners' = progressListeners \ {s}
  /\ tauriListeners' = tauriListeners \ {s}
  /\ delivered' = [delivered EXCEPT ![s] = None]
  /\ UNCHANGED <<useMock, mockJobId, mockRows, mockProgress, intervals, uuidCount,
                 handled, advancedBy, lastCall, settings, storeVars, otherVars>>

\* getSettings() outside mock mode: invoke("get_settings") resolves with res, or
\* rejects and the API layer switches to mock mode for good.  (In mock mode
\* getSettings returns the cached settings and changes nothing.)
GetSettingsApi(ok, res) ==
  /\ ~useMock
  /\ IF ok
     THEN /\ settings' = res
          /\ UNCHANGED useMock
     ELSE /\ useMock' = TRUE
          /\ UNCHANGED settings
  /\ UNCHANGED <<mockJobId, mockRows, mockProgress, progressListeners, tauriListeners,
                 intervals, uuidCount, handled, advancedBy, delivered, lastCall,
                 valueJudgment>>

GetSettings(ok, res) ==
  /\ GetSettingsApi(ok, res)
  /\ UNCHANGED <<storeVars, otherVars>>

\* clearResults(), mock branch
ClearResultsApi ==
  /\ useMock
  /\ mockRows' = << >>
  /\ UNCHANGED <<useMock, mockJobId, mockProgress, progressListeners, tauriListeners,
                 intervals, uuidCount, handled, advancedBy, delivered, lastCall,
                 settings,
                 valueJudgment>>

ClearResults ==
  /\ ClearResultsApi
  /\ UNCHANGED <<storeVars, otherVars>>

(* ------------------------------ the store ----------------------------- *)
\* the pending getSettings() of the mount effect settles (store.tsx:167-189)
SettingsLoaded(ok, res) ==
  /\ settingsRequest = "pending"
  /\ GetSettingsApi(ok, res)
  /\ storeSettings' = FromSettings(settings')
  /\ settingsRequest' = "done"
  /\ UNCHANGED <<sourceRoot, exportRoot, exportManuallySet, progress, photos,
                 otherVars>>

updateSourceRoot(v) ==
  /\ sourceRoot' = v
  /\ IF ~exportManuallySet
     THEN LET base == StripTrailingSlashes(v)
          IN  exportRoot' = IF base # << >> THEN base \o ClassifiedDir ELSE << >>
     ELSE UNCHANGED exportRoot
  /\ UNCHANGED <<apiVars, exportManuallySet, storeSettings, progress, photos,
                 settingsRequest, otherVars>>

updateExportRoot(v) ==
  /\ exportManuallySet' = (Trim(v) # << >>)
  /\ exportRoot' = v
  /\ UNCHANGED <<apiVars, sourceRoot, storeSettings, progress, photos, settingsRequest,
                 otherVars>>

\* store.tsx:349-350
shouldCheckOllama ==
  \/ storeSettings.engine = "ollama"
  \/ (storeSettings.engine = "clip" /\ storeSettings.clipFallback)

\* store.tsx:345, the roots startAnalysisNow refuses
RootsMissing == sourceRoot = << >> \/ exportRoot = << >>

\* startAnalysisNow() in mock mode.  conn is the answer of the mock testOllama,
\* which is drawn at random.  Every await of the handler is on a promise that is
\* already settled in mock mode, so the handler runs without another task in
\* between.  While startAnalysis runs, emitProgress calls the store's callback
\* with the new job's progress (setProgress(p)); the setProgress of
\* store.tsx:368 follows it and is the value the store is left with.
startAnalysisNow(conn, count, sts) ==
  /\ useMock
  /\ IF \/ RootsMissing
        \/ (shouldCheckOllama /\ (~conn \/ storeSettings.model = ""))
     THEN UNCHANGED vars
     ELSE /\ StartAnalysisApi(count, sts)
          /\ progress' = [jobId |-> lastCall'.ret, status |-> "running",
                          currentFile |-> NoFile, processed |-> 0, total |-> 0,
                          errors |-> 0]
          /\ streamPanel' = ClosedPanel
          /\ chunksSeen' = << >>
          /\ UNCHANGED <<sourceRoot, exportRoot, exportManuallySet, storeSettings,
                         photos, settingsRequest, distribution, lastSave, pool,
                         starting, calls, backendProgress, snapshotReply,
                 valueJudgment>>

\* cancelCurrent()
cancelCurrent ==
  /\ useMock
  /\ IF progress.jobId = EmptyJobId
     THEN UNCHANGED vars
     ELSE CancelAnalysis(progress.jobId)

\* store.tsx:408, resetResults gives up while the store shows a running job
ResetRefuses == progress.status = "running"

\* resetResults() in mock mode
resetResults ==
  /\ useMock
  /\ IF ResetRefuses
     THEN UNCHANGED vars
     ELSE /\ ClearResultsApi
          /\ photos' = << >>
          /\ progress' = IdleProgress
          /\ UNCHANGED <<sourceRoot, exportRoot, exportManuallySet, storeSettings,
                         settingsRequest, otherVars>>

(* ------------------------------ settings ------------------------------ *)
\* The values the settings page may pass as next.concurrency: the number
\* field yields Number(e.target.value), any number.
ConcurrencyInputs ==
  {Whole(n) : n \in -1 .. MaxConcurrency + 1}
    \cup {Half(n) : n \in {-1, 0, MinConcurrency, MinConcurrency + 1, MaxConcurrency}}
    \cup {NaN, PosInfinity, NegInfinity}

\* store.tsx:283
ClampConcurrency(x) ==
  MathMin(MaxConcurrency, MathMax(MinConcurrency, MathFloor(OrElse(x, MinConcurrency))))

\* saves the stream flag as the page passed it
SavedStream_AsGiven(concurrency, stream) == stream

\* store.tsx:284
SavedStream(concurrency, stream) ==
  IF GreaterThan(concurrency, MinConcurrency) THEN FALSE ELSE stream

\* saveSettings(next).  Of next the model follows stream and concurrency; the
\* other fields are passed as the store holds them.  setSettings merges next
\* into the cached settings at once; in mock mode it is done with that, otherwise
\* invoke("set_settings") resolves (ok) or rejects, and the store's fields are
\* set when it resolved.
saveSettings(stream, input, ok) ==
  LET concurrency == ClampConcurrency(input)
      savedStream == SavedStream(concurrency, stream)
      next == [ollamaModel |-> storeSettings.model, ollamaStream |-> savedStream,
               analysisConcurrency |-> concurrency,
               analysisEngine |-> storeSettings.engine,
               clipFallbackToOllama |-> storeSettings.clipFallback]
  IN  /\ settings' = Merge(settings, next)
      /\ storeSettings' =
           IF useMock \/ ok
           THEN [model |-> storeSettings.model, engine |-> storeSettings.engine,
                 clipFallback |-> storeSettings.clipFallback,
                 stream |-> savedStream, concurrency |-> concurrency]
           ELSE storeSettings
      /\ lastSave' = [stream |-> stream, concurrency |-> input, sent |-> next,
                      persisted |-> (useMock \/ ok)]
      /\ UNCHANGED <<useMock, mockJobId, mockRows, mockProgress, progressListeners,
                     tauriListeners, intervals, uuidCount, handled, advancedBy,
                     delivered, lastCall, sourceRoot, exportRoot, exportManuallySet,
                     progress, photos, settingsRequest, distribution, pool, asyncVars,
                 valueJudgment>>

(* ----------------------- scores and distributions --------------------- *)
\* The job engine above leaves the scores of a row out.  This part follows
\* them: generateMockRows with its calls of normalizeScores and deriveCategory,
\* and getDistribution over the rows.  A score is kept in units of 1e-4.
CATEGORY_KEYS ==
  <<"screenshot_document", "people", "food_cafe", "nature_landscape",
    "city_street_travel", "pets_animals", "products_objects", "other">>

Keys == {CATEGORY_KEYS[i] : i \in DOMAIN CATEGORY_KEYS}

KeyIndex(k) == CHOOSE i \in DOMAIN CATEGORY_KEYS : CATEGORY_KEYS[i] = k

\* toFixed(4): 1 is 10000 units
Scale == 10000

\* raw = Math.random() + 0.2, in tenths: 0.2 and 0.3
RawValue(high) == IF high THEN 3 ELSE 2

\* the positions that draw the larger raw value: none; the first, a middle or
\* the last key alone; the first two, two middle or the last two keys together
HighSets == {{}, {1}, {5}, {8}, {1, 2}, {3, 4}, {7, 8}}

RawVectors ==
  {[i \in DOMAIN CATEGORY_KEYS |-> RawValue(i \in S)] : S \in HighSets}

RawLists == UNION {[1 .. n -> RawVectors] : n \in 1 .. MaxRows}

RECURSIVE SumSeq(_)
SumSeq(q) == IF q = << >> THEN 0 ELSE Head(q) + SumSeq(Tail(q))

\* cuts the fraction off instead of rounding
RoundDiv_Floor(num, den, up) == num \div den

\* The integer nearest to num / den.  The quotient is a double: where the exact
\* quotient lies half way between two integers the double may lie on either
\* side of it, and up says on which.
RoundDiv(num, den, up) ==
  LET q == num \div den
      r == num % den
  IN  IF 2 * r > den THEN q + 1
      ELSE IF 2 * r < den THEN q
      ELSE IF up THEN q + 1 ELSE q

\* Number((num / den).toFixed(4)), in units
Round4(num, den, up) == RoundDiv(num * Scale, den, up)

normalizeScores(raw, up) ==
  LET sum == SumSeq(raw)
      total == IF sum = 0 THEN 1 ELSE sum
  IN  [k \in Keys |-> Round4(raw[KeyIndex(k)], total, up)]

\* the accumulator the reduce starts from: { key: CATEGORY_KEYS[0], value: -Infinity }
InitialTop == [key |-> CATEGORY_KEYS[1], negInfinity |-> TRUE, value |-> 0]

\* takes a later key of the same score as well
Exceeds_OrEqual(v, top) == top.negInfinity \/ v >= top.value

\* v > top.value
Exceeds(v, top) == top.negInfinity \/ v > top.value

\* Object.entries(scores).reduce(...) from the entry of index i on
RECURSIVE ReduceTop(_, _, _)
ReduceTop(scores, i, top) ==
  IF i > Len(CATEGORY_KEYS) THEN top
  ELSE LET k == CATEGORY_KEYS[i]
       IN  ReduceTop(scores, i + 1,
                     IF Exceeds(scores[k], top)
                     THEN [key |-> k, negInfinity |-> FALSE, value |-> scores[k]]
                     ELSE top)

deriveCategory(scores) == ReduceTop(scores, 1, InitialTop).key

\* Math.max(...Object.values(scores)); toFixed(4) leaves a 4-decimal value as it is
TopScore(scores) ==
  CHOOSE v \in {scores[k] : k \in Keys} : \A k \in Keys : scores[k] <= v

\* the row generateMockRows pushes, with its scores
ScoredRow(i, raw, up) ==
  LET scores == normalizeScores(raw, up)
  IN  [fileName |-> i, exportStatus |-> "success", errorMessage |-> NoMessage,
       isValuable |-> NoVerdict, category |-> deriveCategory(scores),
       topScore |-> TopScore(scores), scores |-> scores]

generateScoredRows(raws, up) ==
  [i \in 1 .. Len(raws) |-> ScoredRow(i, raws[i], up)]

CategoryCount(rows, c) ==
  Cardinality({i \in DOMAIN rows : rows[i].category = c})

RECURSIVE ScoreSum(_, _)
ScoreSum(rows, c) ==
  IF rows = << >> THEN 0 ELSE Head(rows).scores[c] + ScoreSum(Tail(rows), c)

\* getDistribution(mode), mock branch
getDistribution(mode, up) ==
  LET n == Len(mockRows)
  IN  [mode |-> mode,
       byCategory |->
         IF n = 0 THEN [c \in Keys |-> 0]
         ELSE IF mode = "count_ratio"
         THEN [c \in Keys |-> Round4(CategoryCount(mockRows, c), n, up)]
         ELSE [c \in Keys |-> RoundDiv(ScoreSum(mockRows, c), n, up)]]

GetDistribution(mode, up) ==
  /\ useMock
  /\ distribution' = getDistribution(mode, up)
  /\ UNCHANGED <<apiVars, storeVars, lastSave, pool, asyncVars,
                 valueJudgment>>

\* The API module right after the first startAnalysis() in mock mode, the rows
\* with their scores.
ScoreInit ==
  /\ \E raws \in RawLists, up \in BOOLEAN : mockRows = generateScoredRows(raws, up)
  /\ useMock = TRUE
  /\ uuidCount = 1
  /\ mockJobId = uuidCount
  /\ mockProgress = StartProgress(mockJobId, Len(mockRows))
  /\ intervals = {mockJobId}
  /\ handled = [i \in 1 .. Len(mockRows) |-> 0]
  /\ advancedBy = {}
  /\ delivered = [s \in Clients |-> None]
  /\ lastCall = [op |-> "startAnalysis", arg |-> Null, ret |-> mockJobId,
                  published |-> 1]
  /\ settings = DEFAULT_SETTINGS
  /\ StoreFieldsInit
  /\ progressListeners = {}
  /\ tauriListeners = {}
  /\ storeSettings = InitialStoreSettings
  /\ settingsRequest = "none"
  /\ OtherInit

(* ------------------- the session pool: build and use ------------------ *)
\* The priority list of a build: with auto mode on, the accelerators the user
\* turned on in the fixed order of preference and then the CPU; with auto mode
\* off, the CPU only.
PriorityList(auto, enabled) ==
  IF auto THEN SelectSeq(Accelerators, LAMBDA p : p \in enabled) \o <<Cpu>> ELSE <<Cpu>>

\* the pool sizes explored: the concurrency inputs that clamp to 1 .. MaxSessions
PoolConcurrencyInputs ==
  {x \in ConcurrencyInputs : \E n \in 1 .. MaxSessions : ClampConcurrency(x) = Whole(n)}

PoolSize(input) == CHOOSE n \in 1 .. MaxSessions : ClampConcurrency(input) = Whole(n)

\* A job starts and the pool is built for its configuration: N sessions for
\* the clamped concurrency, against the priority list.
StartJob(auto, enabled, input, items) ==
  /\ pool.status = "idle"
  /\ pool' = [pool EXCEPT !.status = "building", !.auto = auto, !.enabled = enabled,
                          !.size = PoolSize(input),
                          !.candidates = PriorityList(auto, enabled),
                          !.items = items, !.pending = items]
  /\ UNCHANGED <<apiVars, storeVars, distribution, lastSave, asyncVars,
                 valueJudgment>>

\* The warmup of an accelerator's session failed: the provider is marked
\* unavailable and dropped, the next candidate is the one to construct with.
OnWarmupFailure_Fatal(q) ==
  [q EXCEPT !.status = "error", !.tried = Append(q.tried, Head(q.candidates))]

OnWarmupFailure(q) ==
  [q EXCEPT !.available[Head(q.candidates)] = FALSE,
            !.tried = Append(q.tried, Head(q.candidates)),
            !.candidates = Tail(q.candidates)]

\* Warmup of the first candidate throws.  Only an accelerator's warmup does: the
\* CPU is the candidate that is taken to succeed.
WarmupFails ==
  /\ pool.status = "building"
  /\ Head(pool.candidates) # Cpu
  /\ pool' = OnWarmupFailure(pool)
  /\ UNCHANGED <<apiVars, storeVars, distribution, lastSave, asyncVars,
                 valueJudgment>>

\* Warmup of the first candidate passes: the N sessions are built with it and
\* the job's workers start.
WarmupSucceeds ==
  /\ pool.status = "building"
  /\ pool' = [pool EXCEPT !.status = "running", !.provider = Head(pool.candidates),
                          !.tried = Append(pool.tried, Head(pool.candidates)),
                          !.candidates = << >>]
  /\ UNCHANGED <<apiVars, storeVars, distribution, lastSave, asyncVars,
                 valueJudgment>>

\* a session is free when no caller holds it
IsFree_Always(q, s) == TRUE

IsFree(q, s) == \A w \in Workers : q.session[w] # s

\* Checkout: a caller with an image to score takes a free session; while no
\* session is free it waits.
Acquire(w, s) ==
  /\ pool.status = "running"
  /\ pool.pending > 0
  /\ pool.session[w] = NoSession
  /\ s \in 1 .. pool.size
  /\ IsFree(pool, s)
  /\ pool' = [pool EXCEPT !.session[w] = s, !.pending = pool.pending - 1]
  /\ UNCHANGED <<apiVars, storeVars, distribution, lastSave, asyncVars,
                 valueJudgment>>

\* Checkin: the caller has scored its image and returns the session.
Release(w) ==
  /\ pool.status = "running"
  /\ pool.session[w] # NoSession
  /\ pool' = [pool EXCEPT !.session[w] = NoSession, !.done = pool.done + 1]
  /\ UNCHANGED <<apiVars, storeVars, distribution, lastSave, asyncVars,
                 valueJudgment>>

\* Every image is scored and every session is back: the job completes.
FinishJob ==
  /\ pool.status = "running"
  /\ pool.pending = 0
  /\ \A w \in Workers : pool.session[w] = NoSession
  /\ pool' = [pool EXCEPT !.status = "completed"]
  /\ UNCHANGED <<apiVars, storeVars, distribution, lastSave, asyncVars,
                 valueJudgment>>

(* ------------------ startAnalysisNow outside mock mode ---------------- *)
\* Outside mock mode the awaits of startAnalysisNow are on the backend:
\* testOllama waits for invoke("test_ollama") or its 8 s timeout, startAnalysis
\* for invoke("start_analysis").  calls[i] is the await the i-th invocation is
\* at ("testing", "starting"), with the settingsModel its closure read.

\* MainPage: <PrimaryButton onClick={startAnalysisNow} loading={starting}
\* disabled={isRunning || !canStart}>, and PrimaryButton is disabled while
\* loading
StartButtonEnabled == ~(isRunning \/ ~canStart) /\ ~starting

\* the invocations whose start_analysis request is sent and not yet answered
InFlight == {i \in Calls : calls[i].phase = "starting"}

\* store.tsx:362-367 up to the await: setStarting(true), the stream panel is
\* emptied and start_analysis is invoked
BeginStart(i) ==
  /\ starting' = TRUE
  /\ streamPanel' = ClosedPanel
  /\ chunksSeen' = << >>
  /\ calls' = [calls EXCEPT ![i] = [phase |-> "starting", model |-> calls[i].model]]

\* a click on the start button: startAnalysisNow() up to its first await
ClickStart(i) ==
  /\ ~useMock
  /\ StartButtonEnabled
  /\ calls[i] = NotCalled
  /\ \A j \in Calls : j < i => calls[j] # NotCalled
  /\ IF RootsMissing
     THEN /\ calls' = [calls EXCEPT ![i] = Finished]
          /\ UNCHANGED <<starting, streamPanel, chunksSeen,
                 valueJudgment>>
     ELSE IF shouldCheckOllama
     THEN /\ calls' = [calls EXCEPT ![i] = [phase |-> "testing",
                                            model |-> storeSettings.model]]
          /\ UNCHANGED <<starting, streamPanel, chunksSeen,
                 valueJudgment>>
     ELSE BeginStart(i)
  /\ UNCHANGED <<apiVars, storeVars, distribution, lastSave, pool, backendProgress,
                 snapshotReply,
                 valueJudgment>>

\* testOllama settles with conn.ok = ok (store.tsx:352-361)
TestSettles(i, ok) ==
  /\ calls[i].phase = "testing"
  /\ IF ~ok \/ calls[i].model = ""
     THEN /\ calls' = [calls EXCEPT ![i] = Finished]
          /\ UNCHANGED <<starting, streamPanel, chunksSeen,
                 valueJudgment>>
     ELSE BeginStart(i)
  /\ UNCHANGED <<apiVars, storeVars, distribution, lastSave, pool, backendProgress,
                 snapshotReply,
                 valueJudgment>>

\* invoke("start_analysis") settles: resolved, the store's progress is set to
\* the running value with the job id returned (here the number of the
\* request); rejected, a toast; either way setStarting(false)
StartSettles(i, ok) ==
  /\ calls[i].phase = "starting"
  /\ progress' = IF ok
                 THEN [jobId |-> i, status |-> "running", currentFile |-> NoFile,
                       processed |-> 0, total |-> 0, errors |-> 0]
                 ELSE progress
  /\ starting' = FALSE
  /\ calls' = [calls EXCEPT ![i] = Finished]
  /\ UNCHANGED <<apiVars, sourceRoot, exportRoot, exportManuallySet, storeSettings,
                 photos, settingsRequest, distribution, lastSave, pool, streamPanel,
                 chunksSeen, backendProgress, snapshotReply,
                 valueJudgment>>

(* ------------------ the scorer's value-judgment step ------------------ *)
\* Step 4 of the scorer: the similarities of the image embedding to the keep
\* and the drop text embeddings are the two logits, a 2-way softmax of them is
\* keep_prob, and the image is valuable when keep_prob >= 0.5.  Logits are
\* whole numbers here and probabilities are in units of 1 / Scale.
Logits == (0 - MaxLogit) .. MaxLogit

\* e, in units of 1 / Scale
EulerUnits == 27183

\* exp(x), in units of 1 / Scale
RECURSIVE ExpUnits(_)
ExpUnits(x) ==
  IF x = 0 THEN Scale
  ELSE IF x > 0 THEN (ExpUnits(x - 1) * EulerUnits) \div Scale
  ELSE (ExpUnits(x + 1) * Scale) \div EulerUnits

\* the keep logit's exponential without the division by the sum
KeepProb_Unnormalised(keep_logit, drop_logit) ==
  (ExpUnits(keep_logit) * Scale) \div ExpUnits(drop_logit)

\* softmax([keep_logit, drop_logit])[0]
KeepProb(keep_logit, drop_logit) ==
  (ExpUnits(keep_logit) * Scale) \div (ExpUnits(keep_logit) + ExpUnits(drop_logit))

\* 0.5, in units of 1 / Scale
Threshold == Scale \div 2

\* the value fields of the PhotoResult of an image: unset when value-judgment
\* is off
ValueFields(enabled, keep_logit, drop_logit) ==
  IF enabled
  THEN LET keep_prob == KeepProb(keep_logit, drop_logit)
       IN  [isValuable |-> IF keep_prob >= Threshold THEN "true" ELSE "false",
            valuableScore |-> keep_prob]
  ELSE [isValuable |-> NoVerdict, valuableScore |-> 0]

\* the scorer handles one more image
ScoreImage(enabled, keep_logit, drop_logit) ==
  /\ valueJudgment.scored < MaxScored
  /\ LET fields == ValueFields(enabled, keep_logit, drop_logit)
     IN  valueJudgment' =
           [scored |-> valueJudgment.scored + 1, enabled |-> enabled,
            keep_logit |-> keep_logit, drop_logit |-> drop_logit,
            isValuable |-> fields.isValuable,
            valuableScore |-> fields.valuableScore]
  /\ UNCHANGED <<apiVars, storeVars, distribution, lastSave, pool, asyncVars>>

(* ------------------- progress outside mock mode ----------------------- *)
\* Outside mock mode the job is the backend's.  The backend moves its job state
\* forward and pushes every state as a progress event, which the listen()
\* registration of onProgress hands to the callback; get_progress reads the
\* state the backend holds at the moment it handles the call, and its answer
\* reaches the .then of index.ts:292 some time later.
BackendJob(jobId, count) ==
  [jobId |-> jobId, status |-> "running", currentFile |-> NoFile,
   processed |-> 0, total |-> count, errors |-> 0]

\* the store's callback (store.tsx:199-211) called with p outside mock mode:
\* setProgress(p), and the stream panel is closed on a terminal status.  The
\* answers of the calls refreshListAndDistributions() makes are the backend's
\* and are not followed.
StoreCallback(p) ==
  /\ progress' = p
  /\ streamPanel' = IF p.status \in {"completed", "canceled"}
                    THEN [streamPanel EXCEPT !.isOpen = FALSE] ELSE streamPanel

\* the backend publishes p: it is the state it holds from now on, and the event
\* is handed to the callbacks registered with listen()
BackendPublish(p) ==
  /\ backendProgress' = p
  /\ IF Store \in tauriListeners
     THEN StoreCallback(p)
     ELSE UNCHANGED <<progress, streamPanel,
                 valueJudgment>>
  /\ UNCHANGED <<apiVars, sourceRoot, exportRoot, exportManuallySet, storeSettings,
                 photos, settingsRequest, distribution, lastSave, pool, chunksSeen,
                 starting, calls, snapshotReply,
                 valueJudgment>>

\* the backend accepts a start: a new job id, counters reset, status running
BackendStart(count) ==
  /\ ~useMock
  /\ IF backendProgress = None THEN TRUE ELSE backendProgress.status # "running"
  /\ LET jobId == IF backendProgress = None THEN 1 ELSE backendProgress.jobId + 1
     IN  /\ jobId <= MaxJobs
         /\ BackendPublish(BackendJob(jobId, count))

\* a worker of the backend has handled one more image; the last one completes
\* the job
BackendAdvance ==
  /\ ~useMock
  /\ backendProgress # None
  /\ backendProgress.status = "running"
  /\ LET n == backendProgress.processed + 1
     IN  BackendPublish([backendProgress EXCEPT
                           !.processed = n,
                           !.status = IF n >= backendProgress.total
                                      THEN "completed" ELSE "running"])

\* the backend cancels its running job
BackendCancel ==
  /\ ~useMock
  /\ backendProgress # None
  /\ backendProgress.status = "running"
  /\ BackendPublish([backendProgress EXCEPT !.status = "canceled"])

\* the backend handles the get_progress call: the answer is the state it holds
\* now (null when it holds no job)
SnapshotAnswered ==
  /\ ~useMock
  /\ snapshotReply.phase = "requested"
  /\ snapshotReply' = [phase |-> "answered", value |-> backendProgress]
  /\ UNCHANGED <<apiVars, storeVars, distribution, lastSave, pool, streamPanel,
                 chunksSeen, starting, calls, backendProgress,
                 valueJudgment>>

\* the promise of getProgressSnapshot() resolves: .then((p) => p && cb(p))
SnapshotDelivered ==
  /\ snapshotReply.phase = "answered"
  /\ IF snapshotReply.value # None /\ Store \in tauriListeners
     THEN StoreCallback(snapshotReply.value)
     ELSE UNCHANGED <<progress, streamPanel,
                 valueJudgment>>
  /\ snapshotReply' = NoSnapshot
  /\ UNCHANGED <<apiVars, sourceRoot, exportRoot, exportManuallySet, storeSettings,
                 photos, settingsRequest, distribution, lastSave, pool, chunksSeen,
                 starting, calls, backendProgress,
                 valueJudgment>>

(* --------------------------- the stream panel ------------------------- *)
\* The stream chunks the backend may push (StreamChunk): the file name is a
\* string, possibly the empty one; the delta is a string, here a sequence of
\* characters; reset is optional and counts as false when it is missing.  The
\* callback does not read jobId and done.
FileNames == {"", "a", "b"}
Deltas == {<< >>, <<"x">>, <<"y">>}
StreamChunks == [fileName : FileNames, delta : Deltas, reset : BOOLEAN]

\* store.tsx:218, chunk.fileName || null
NextFile(chunk) == IF chunk.fileName = "" THEN NoName ELSE chunk.fileName

\* store.tsx:219
IsNewFile(prev, chunk) ==
  chunk.reset \/ (NextFile(chunk) # NoName /\ NextFile(chunk) # prev.fileName)

\* the callback the store passes to onStream (store.tsx:216-228), called with
\* a chunk by the listen() registration of onStream (index.ts:303)
OnStreamChunk(chunk) ==
  /\ ~useMock
  /\ Len(chunksSeen) < MaxChunks
  /\ LET base == IF IsNewFile(streamPanel, chunk) THEN << >> ELSE streamPanel.text
     IN  streamPanel' = [fileName |-> NextFile(chunk), text |-> base \o chunk.delta,
                         isOpen |-> TRUE]
  /\ chunksSeen' = Append(chunksSeen, chunk)
  /\ UNCHANGED <<apiVars, storeVars, distribution, lastSave, pool, starting, calls,
                 backendProgress, snapshotReply,
                 valueJudgment>>

(* --------------------------- specifications --------------------------- *)
\* The commands and events of the API module, called with any input.
Next ==
  \/ \E count \in Counts : \E sts \in [1 .. count -> ExportStatuses] :
       StartAnalysis(count, sts)
  \/ \E t \in JobIds, step \in Steps : Tick(t, step)
  \/ \E jobId \in {EmptyJobId} \cup (1 .. uuidCount) : CancelAnalysis(jobId)
  \/ \E s \in Clients : OnProgress(s)
  \/ \E s \in Clients : Unsubscribe(s)
  \/ \E ok \in BOOLEAN, res \in BackendSettings : GetSettings(ok, res)
  \/ ClearResults

Spec == Init /\ [][Next]_vars

\* setInterval fires every interval that is not cleared again and again.
FairSpec == Spec /\ \A t \in JobIds : WF_vars(\E step \in Steps : Tick(t, step))

\* The application: the store's handlers, the timers and the settling of the
\* mount effect's getSettings().
AppNext ==
  \/ \E v \in RootInputs : updateSourceRoot(v)
  \/ \E v \in RootInputs : updateExportRoot(v)
  \/ \E conn \in BOOLEAN, count \in Counts : \E sts \in [1 .. count -> ExportStatuses] :
       startAnalysisNow(conn, count, sts)
  \/ cancelCurrent
  \/ resetResults
  \/ \E t \in JobIds, step \in Steps : Tick(t, step)
  \/ \E ok \in BOOLEAN, res \in BackendSettings : SettingsLoaded(ok, res)

AppSpec == AppInit /\ [][AppNext]_vars

\* The scores of the generated rows and the distributions computed from them.
ScoreNext ==
  \/ \E mode \in {"avg_score", "count_ratio"}, up \in BOOLEAN : GetDistribution(mode, up)
  \/ ClearResults

ScoreSpec == ScoreInit /\ [][ScoreNext]_vars

\* The settings page: saves, and the settling of the mount effect's getSettings().
SettingsNext ==
  \/ \E stream \in BOOLEAN, input \in ConcurrencyInputs, ok \in BOOLEAN :
       saveSettings(stream, input, ok)
  \/ \E ok \in BOOLEAN, res \in BackendSettings : SettingsLoaded(ok, res)

SettingsSpec == AppInit /\ [][SettingsNext]_vars

\* One job on the backend's session pool.
PoolNext ==
  \/ \E auto \in BOOLEAN, enabled \in EnabledInputs, input \in PoolConcurrencyInputs,
        items \in Items : StartJob(auto, enabled, input, items)
  \/ WarmupFails
  \/ WarmupSucceeds
  \/ \E w \in Workers, s \in 1 .. MaxSessions : Acquire(w, s)
  \/ \E w \in Workers : Release(w)
  \/ FinishJob

PoolSpec == Init /\ [][PoolNext]_vars

\* The backend keeps going: a build, a waiting caller with a free session, a
\* caller holding a session and a finished job each take their next step.
FairPoolSpec == PoolSpec /\ WF_vars(PoolNext)

\* The stream panel as the backend's chunks arrive.
StreamNext == \E chunk \in StreamChunks : OnStreamChunk(chunk)

StreamSpec == AppInit /\ [][StreamNext]_vars

\* The start button outside mock mode: the folder fields, the clicks and the
\* backend's answers.
StartNext ==
  \/ \E v \in RootInputs : updateSourceRoot(v)
  \/ \E ok \in BOOLEAN, res \in BackendSettings : SettingsLoaded(ok, res)
  \/ \E i \in Calls : ClickStart(i)
  \/ \E i \in Calls, ok \in BOOLEAN : TestSettles(i, ok)
  \/ \E i \in Calls, ok \in BOOLEAN : StartSettles(i, ok)

StartSpec == AppInit /\ [][StartNext]_vars

\* The store's progress outside mock mode: the backend's job, its events and
\* the snapshot call of onProgress.
ListenNext ==
  \/ \E count \in Counts : BackendStart(count)
  \/ BackendAdvance
  \/ BackendCancel
  \/ SnapshotAnswered
  \/ SnapshotDelivered

ListenSpec == AppInit /\ [][ListenNext]_vars

\* The scorer's value judgments, image after image.
ValueNext ==
  \E enabled \in BOOLEAN, keep_logit \in Logits, drop_logit \in Logits :
    ScoreImage(enabled, keep_logit, drop_logit)

ValueSpec == AppInit /\ [][ValueNext]_vars

(* ------------------------------ claims -------------------------------- *)
SameJob == mockProgress'.jobId = mockProgress.jobId
Issued == 1 .. uuidCount

\* C1: a startAnalysis call made while the live job is running is rejected: no
\* step taken while the status is running issues a new job id or replaces the
\* running job.
C1_StartRejectedWhileRunning ==
  [][mockProgress.status = "running" =>
       /\ uuidCount' = uuidCount
       /\ mockJobId' = mockJobId
       /\ SameJob]_vars

\* C2: the status of a job only moves idle -> running -> {completed, canceled,
\* error}, and a terminal status of a job never changes again; only a new
\* startAnalysis (a new job id) leaves it.
C2_TerminalIsFinal ==
  [][/\ (mockProgress.status \in Terminal /\ SameJob) =>
          mockProgress'.status = mockProgress.status
     /\ mockProgress.status = "idle" => mockProgress'.status \in {"idle", "running"}
     /\ (mockProgress.status = "running" /\ SameJob) =>
          mockProgress'.status \in {"running"} \cup Terminal
     /\ (~SameJob) => mockProgress'.status = "running"]_vars

\* C3: cancelAnalysis with the live job's id sets the status to canceled and
\* leaves the rows listPhotos returns as they are, and from then on the
\* processed counter of that job does not change.
C3_CancelStopsJob ==
  /\ [][\A j \in JobIds :
          (CancelAnalysis(j) /\ j = mockJobId) =>
            /\ mockProgress'.status = "canceled"
            /\ listPhotos' = listPhotos]_vars
  /\ [][(mockProgress.status = "canceled" /\ SameJob) =>
          /\ mockProgress'.processed = mockProgress.processed
          /\ mockProgress'.status = "canceled"]_vars

\* C3 witness: a job canceled half way, its rows still listed, after the timer
\* has fired once more and given up.
C3_Witness ==
  /\ mockProgress.status = "canceled"
  /\ lastCall = [op |-> "cancelAnalysis", arg |-> mockJobId, ret |-> Null,
                  published |-> 1]
  /\ mockProgress.processed > 0
  /\ mockProgress.processed < mockProgress.total
  /\ Len(listPhotos) = mockProgress.total
  /\ intervals = {}

\* C4: a running job that is not canceled eventually reaches completed, and
\* completed is only ever shown with processed = total.
C4_RunningJobCompletes ==
  /\ [](mockProgress.status = "completed" =>
          mockProgress.processed = mockProgress.total)
  /\ \A j \in JobIds :
       (mockProgress.jobId = j /\ mockProgress.status = "running")
         ~> (mockProgress.jobId = j /\ mockProgress.status \in {"completed", "canceled"})

\* C5: within one job processed never decreases, and however many timers
\* advance the job every row index up to processed has been counted exactly
\* once and none beyond it, so that a completed job has counted each of its
\* total rows once.
C5_ProcessedCountsEachOnce ==
  /\ [][SameJob => mockProgress'.processed >= mockProgress.processed]_vars
  /\ [](/\ DOMAIN handled = 1 .. mockProgress.total
        /\ \A i \in DOMAIN handled :
             handled[i] = IF i <= mockProgress.processed THEN 1 ELSE 0
        /\ mockProgress.status = "completed" =>
             mockProgress.processed = mockProgress.total)

\* C5 witness: a job completed by two timers, each of which advanced it.
C5_Witness ==
  /\ mockProgress.status = "completed"
  /\ Cardinality(advancedBy) = 2
  /\ mockProgress.processed = Len(mockRows)
  /\ mockProgress.processed >= MinCount

\* C6: cancelAnalysis with an id that is not the live job's changes nothing of
\* the job and publishes nothing; with the live job's id a second call leaves
\* the job as the first call left it.
C6_CancelNoOpAndIdempotent ==
  [][\A j \in {EmptyJobId} \cup JobIds :
       CancelAnalysis(j) =>
         /\ (j # mockJobId) =>
              /\ UNCHANGED <<mockJobId, mockProgress, mockRows, intervals, delivered,
                             progress, photos,
                 valueJudgment>>
              /\ lastCall'.published = 0
         /\ (j = mockJobId /\ lastCall.op = "cancelAnalysis" /\ lastCall.arg = j) =>
              UNCHANGED <<mockJobId, mockProgress, mockRows, intervals,
                 valueJudgment>>]_vars

\* C6 witness: the last command was a cancel with the id of an earlier job
\* while a later job is running and a client is subscribed.
C6_Witness ==
  /\ lastCall.op = "cancelAnalysis"
  /\ lastCall.published = 0
  /\ lastCall.arg \in JobIds
  /\ lastCall.arg # mockJobId
  /\ mockProgress.status = "running"
  /\ mockProgress.processed > 0
  /\ progressListeners # {}

\* C7: every change of the job state reaches every registered onProgress
\* subscriber, whichever mode it registered in: after the change the progress
\* last delivered to it is what get_progress returns.
C7_PushEqualsSnapshot ==
  [][mockProgress' # mockProgress =>
       \A s \in Clients :
         (s \in progressListeners' \cup tauriListeners') =>
           delivered'[s] = getProgressSnapshot']_vars

\* C8: an accepted startAnalysis issues a job id that no earlier call returned,
\* publishes a running progress with processed = 0 and errors = 0, and returns
\* the job id of the progress it published.
C8_StartIssuesFreshJob ==
  [][\A count \in Counts : \A sts \in [1 .. count -> ExportStatuses] :
       StartAnalysisApi(count, sts) =>
         /\ mockProgress'.jobId \notin Issued
         /\ mockProgress'.jobId \in Issued'
         /\ mockProgress'.status = "running"
         /\ mockProgress'.processed = 0
         /\ mockProgress'.errors = 0
         /\ lastCall'.ret = mockProgress'.jobId
         /\ \A s \in progressListeners \cap Clients :
              delivered'[s] = mockProgress']_vars

\* C8 witness: a second job accepted after the first reached a terminal status
\* and its timer was cleared, and published to a subscriber.
C8_Witness ==
  /\ lastCall = [op |-> "startAnalysis", arg |-> Null, ret |-> mockProgress.jobId,
                  published |-> 1]
  /\ mockProgress.jobId = MaxJobs
  /\ mockProgress.status = "running"
  /\ mockProgress.processed = 0
  /\ intervals = {mockProgress.jobId}
  /\ \E s \in progressListeners \cap Clients : delivered[s].jobId = lastCall.ret

\* C9: a start with an empty source or export root, a root of blanks counting
\* as empty, issues no job id and starts no job.
C9_EmptyRootsStartNothing ==
  [][(~canStart) => (uuidCount' = uuidCount /\ mockJobId' = mockJobId)]_vars

RECURSIVE CountVerdict(_, _)
CountVerdict(rows, v) ==
  IF rows = << >> THEN 0
  ELSE (IF Head(rows).isValuable = v THEN 1 ELSE 0) + CountVerdict(Tail(rows), v)

\* C11: every listed row whose export status is error carries an error message.
C11_ErrorRowsCarryMessage ==
  \A i \in DOMAIN listPhotos :
    listPhotos[i].exportStatus = "error" => listPhotos[i].errorMessage # NoMessage

\* C12: at every point of a job listPhotos returns as many rows as the job has
\* processed, and within a job a row that is listed stays listed unchanged.
C12_OneResultPerProcessed ==
  [][/\ mockProgress'.jobId # EmptyJobId =>
          Len(listPhotos') = mockProgress'.processed
     /\ SameJob =>
          \A i \in DOMAIN listPhotos :
            i \in DOMAIN listPhotos' /\ listPhotos'[i] = listPhotos[i]]_vars

\* C17: getValueStats counts the listed rows: valuable and notValuable are the
\* rows with isValuable true and false, unknown the rest, so that the three
\* add up to the number of rows listPhotos returns.
C17_ValueStatsScanResults ==
  /\ getValueStats.valuable = CountVerdict(listPhotos, "true")
  /\ getValueStats.notValuable = CountVerdict(listPhotos, "false")
  /\ getValueStats.valuable + getValueStats.notValuable + getValueStats.unknown
       = Len(listPhotos)

\* the sum of the 8 scores of a row
SumOfScores(scores) == SumSeq([i \in DOMAIN CATEGORY_KEYS |-> scores[CATEGORY_KEYS[i]]])

\* C13: in every generated row each of the 8 scores lies in [0,1] and the 8
\* scores sum to 1 within 1e-4 (one unit).
C13_ScoresSumToOne ==
  \A i \in DOMAIN mockRows :
    /\ \A k \in Keys : mockRows[i].scores[k] \in 0 .. Scale
    /\ SumOfScores(mockRows[i].scores) \in Scale - 1 .. Scale + 1

\* C14: the category of every generated row is the first key, in the order of
\* CATEGORY_KEYS, whose score is the largest of the row, and topScore is the
\* score of that key.
C14_CategoryIsFirstArgMax ==
  \A i \in DOMAIN mockRows :
    LET row == mockRows[i]
    IN  /\ row.category \in Keys
        /\ \A k \in Keys : row.scores[k] <= row.scores[row.category]
        /\ \A k \in Keys :
             KeyIndex(k) < KeyIndex(row.category) =>
               row.scores[k] < row.scores[row.category]
        /\ row.topScore = row.scores[row.category]

\* C14 witness: a row whose largest score is shared by two keys, neither the
\* first key, and whose category is the earlier of the two; and a row with a
\* single largest score at the last key.
C14_Witness ==
  /\ \E i \in DOMAIN mockRows :
       /\ mockRows[i].category = CATEGORY_KEYS[3]
       /\ mockRows[i].scores[CATEGORY_KEYS[4]] = mockRows[i].topScore
       /\ mockRows[i].scores[CATEGORY_KEYS[1]] < mockRows[i].topScore
  /\ \E i \in DOMAIN mockRows :
       /\ mockRows[i].category = CATEGORY_KEYS[Len(CATEGORY_KEYS)]
       /\ \A k \in Keys \ {mockRows[i].category} :
            mockRows[i].scores[k] < mockRows[i].topScore

\* C18 as stated: the answer of getDistribution holds all 8 categories; with
\* no rows every value is 0; otherwise a count_ratio value is exactly
\* count / rows and an avg_score value exactly the mean of the scores.
C18_DistributionExact ==
  [][\A mode \in {"avg_score", "count_ratio"}, up \in BOOLEAN :
       GetDistribution(mode, up) =>
         LET n == Len(listPhotos)
             by == distribution'.byCategory
         IN  /\ DOMAIN by = Keys
             /\ n = 0 => \A c \in Keys : by[c] = 0
             /\ (n > 0 /\ distribution'.mode = "count_ratio") =>
                  \A c \in Keys : by[c] * n = Scale * CategoryCount(listPhotos, c)
             /\ (n > 0 /\ distribution'.mode = "avg_score") =>
                  \A c \in Keys : by[c] * n = ScoreSum(listPhotos, c)]_vars

\* |a - b|
Dist(a, b) == IF a < b THEN b - a ELSE a - b

\* C18 amended: the same with every value rounded to 4 decimals, that is the
\* value lies within half a unit of count / rows or of the mean.
C18_DistributionRounded ==
  [][\A mode \in {"avg_score", "count_ratio"}, up \in BOOLEAN :
       GetDistribution(mode, up) =>
         LET n == Len(listPhotos)
             by == distribution'.byCategory
         IN  /\ DOMAIN by = Keys
             /\ distribution'.mode = mode
             /\ \A c \in Keys : by[c] \in 0 .. Scale
             /\ n = 0 => \A c \in Keys : by[c] = 0
             /\ (n > 0 /\ mode = "count_ratio") =>
                  \A c \in Keys :
                    2 * Dist(by[c] * n, Scale * CategoryCount(listPhotos, c)) <= n
             /\ (n > 0 /\ mode = "avg_score") =>
                  \A c \in Keys :
                    2 * Dist(by[c] * n, ScoreSum(listPhotos, c)) <= n]_vars

\* C18 witness: a count_ratio answer over three rows, two of one category and
\* one of another, whose values are 0.6667, 0.3333 and 0.
C18_Witness ==
  /\ distribution # None
  /\ distribution.mode = "count_ratio"
  /\ Len(listPhotos) = 3
  /\ \E c, d \in Keys :
       /\ CategoryCount(listPhotos, c) = 2
       /\ CategoryCount(listPhotos, d) = 1
       /\ distribution.byCategory[c] = 6667
       /\ distribution.byCategory[d] = 3333

\* stream is not on together with a concurrency greater than 1
StreamPolicy(stream, concurrency) == ~(stream /\ GreaterThan(concurrency, 1))

C16_ConcurrencyClamped ==
  lastSave # None =>
    /\ \E n \in 1 .. 32 : lastSave.sent.analysisConcurrency = Whole(n)
    /\ (\E n \in 1 .. 32 : lastSave.concurrency = Whole(n)) =>
         lastSave.sent.analysisConcurrency = lastSave.concurrency

\* C16 witness: 32.5 was given and 32 is saved, in the settings and the store.
C16_Witness ==
  /\ lastSave # None
  /\ lastSave.concurrency = Half(32)
  /\ lastSave.sent.analysisConcurrency = Whole(32)
  /\ settings.analysisConcurrency = Whole(32)
  /\ storeSettings.concurrency = Whole(32)

\* the callers that hold a session, and the sessions that are in use
Holders == {w \in Workers : pool.session[w] # NoSession}
InUse == {pool.session[w] : w \in Holders}

\* C19: with concurrency N, never more than N pooled sessions are in use (nor
\* more than N callers holding one) at the same time, and no session is held by
\* two callers at once.
C19_PoolExclusive ==
  /\ Cardinality(InUse) <= pool.size
  /\ Cardinality(Holders) <= pool.size
  /\ \A w1, w2 \in Holders : w1 # w2 => pool.session[w1] # pool.session[w2]

\* every session of a pool of more than one is held, and an image is still
\* waiting for a caller to get one
C19_Witness ==
  /\ pool.status = "running" /\ pool.size > 1
  /\ Cardinality(Holders) = pool.size /\ Cardinality(InUse) = pool.size
  /\ pool.pending > 0

\* the providers whose warmup was attempted and threw
Failed == {pool.tried[i] : i \in 1 .. Len(pool.tried)} \ {pool.provider}
IsPrefix(a, b) == Len(a) <= Len(b) /\ \A i \in 1 .. Len(a) : a[i] = b[i]

\* what holds at every moment of a job with auto mode on
FallbackOrder ==
  (pool.status # "idle" /\ pool.auto) =>
    \* the providers are tried in priority order, the enabled ones only
    /\ IsPrefix(pool.tried, PriorityList(pool.auto, pool.enabled))
    /\ pool.tried \o pool.candidates = PriorityList(pool.auto, pool.enabled)
         \/ pool.provider # NoProvider
    \* a provider whose warmup threw is an accelerator marked unavailable, and
    \* the job has not failed
    /\ \A p \in Failed : p # Cpu /\ ~pool.available[p]
    /\ pool.status # "error"
    \* the CPU is tried last: after every enabled accelerator has failed
    /\ (pool.status = "building" /\ Failed # {}) => pool.candidates # << >>
    /\ \A i \in 1 .. Len(pool.tried) :
         pool.tried[i] = Cpu => /\ i = Len(pool.tried)
                                /\ Failed = pool.enabled
                                /\ pool.provider = Cpu

\* every enabled accelerator has failed its warmup and the CPU is next
AllAcceleratorsFailed ==
  /\ pool.status = "building" /\ pool.auto
  /\ pool.enabled # {} /\ Failed = pool.enabled
  /\ pool.candidates = <<Cpu>>

C22_TimerOwnsJob ==
  /\ advancedBy \subseteq {mockProgress.jobId}
  /\ Cardinality(advancedBy) <= 1

\* the counters of a progress value are in order
WellFormed(p) == 0 <= p.errors /\ p.errors <= p.processed /\ p.processed <= p.total

\* C27: in every progress state, the one the API layer holds, the one the
\* store shows and the ones delivered to subscribers, 0 <= errors <=
\* processed <= total.
C27_CountersOrdered ==
  /\ WellFormed(mockProgress)
  /\ WellFormed(progress)
  /\ \A s \in Clients : delivered[s] # None => WellFormed(delivered[s])

\* C27 witness: a subscriber was handed the progress of a running job with an
\* error among the processed rows and rows still to come
C27_Witness ==
  \E s \in Clients :
    /\ delivered[s] # None /\ delivered[s] = mockProgress
    /\ delivered[s].status = "running"
    /\ 0 < delivered[s].errors /\ delivered[s].errors < delivered[s].processed
    /\ delivered[s].processed < delivered[s].total

\* C28: resetResults clears nothing while the live job is running, and clears
\* otherwise: it gives up exactly when the live job's status is running,
\* leaving the results, the store's photos and the store's progress as they
\* are, and in every other state it empties the results and the photos and
\* sets the store's progress to the idle value.
C28_ResetOnlyWhenNotRunning ==
  /\ [](useMock => (ResetRefuses <=> mockProgress.status = "running"))
  /\ [][resetResults =>
          IF mockProgress.status = "running"
          THEN UNCHANGED <<mockRows, photos, progress, distribution,
                 valueJudgment>>
          ELSE mockRows' = << >> /\ photos' = << >> /\ progress' = IdleProgress]_vars

\* C30: a save whose persistence fails changes nothing: the step of a
\* saveSettings whose setSettings rejected leaves the store's settings fields
\* and the settings getSettings answers with from the cache as they were.
C30_FailedSaveChangesNothing ==
  [][(lastSave' # lastSave /\ ~lastSave'.persisted) =>
       /\ storeSettings' = storeSettings
       /\ settings' = settings]_vars

\* C26: once the store has been told that the job ended, completed or
\* canceled, its photo list is the list listPhotos returns.  (In mock mode the
\* calls of refreshListAndDistributions answer at once, so the refresh is done
\* in the state that follows the terminal event.)
C26_TerminalRefreshes ==
  (useMock /\ progress.status \in {"completed", "canceled"}) => photos = listPhotos

\* the progress the store's callback was called with while startAnalysis ran:
\* emitProgress (index.ts:248) calls every listener before startAnalysis returns
PublishedOnStart == mockProgress'

\* C24: the value startAnalysisNow writes when startAnalysis has returned does
\* not replace progress the store has already received for the new job: after
\* a start during which the store's callback was called with the new job's
\* progress, the store still shows the total, processed and status of it.
C24_StartKeepsReceivedProgress ==
  [][(uuidCount' # uuidCount /\ Store \in progressListeners) =>
       /\ progress'.jobId = PublishedOnStart.jobId
       /\ progress'.total = PublishedOnStart.total
       /\ progress'.processed = PublishedOnStart.processed
       /\ progress'.status = PublishedOnStart.status]_vars

\* the index of the last chunk of h that had reset set or whose file name is
\* not the one of the chunk before it (the first chunk after the panel was
\* emptied starts a text as well)
SegmentStart(h) ==
  CHOOSE i \in 1 .. Len(h) :
    /\ i = 1 \/ h[i].reset \/ h[i].fileName # h[i - 1].fileName
    /\ \A j \in (i + 1) .. Len(h) : ~h[j].reset /\ h[j].fileName = h[j - 1].fileName

RECURSIVE ConcatDeltas(_)
ConcatDeltas(h) ==
  IF h = << >> THEN << >> ELSE Head(h).delta \o ConcatDeltas(Tail(h))

\* C29: the text of the stream panel is the concatenation, in arrival order,
\* of the deltas of the chunks received for the displayed file since the last
\* chunk that had reset set or that changed the file name, so that no delta of
\* one file is in the text shown for another.
C29_StreamTextPerFile ==
  IF chunksSeen = << >>
  THEN streamPanel.text = << >>
  ELSE /\ streamPanel.fileName = NextFile(chunksSeen[Len(chunksSeen)])
       /\ streamPanel.text =
            ConcatDeltas(SubSeq(chunksSeen, SegmentStart(chunksSeen), Len(chunksSeen)))

\* C25: startAnalysisNow is not re-entrant: at most one start_analysis request
\* is in flight at any time, whatever await an earlier invocation is at.
C25_OneStartInFlight == Cardinality(InFlight) <= 1

\* C23: the progress states handed to the store's onProgress callback arrive
\* in publication order: from one value the store shows to the next, for one
\* job, processed does not decrease and a terminal status is not followed by
\* running.
C23_DeliveredInOrder ==
  [][(progress' # progress /\ progress'.jobId = progress.jobId) =>
       /\ progress'.processed >= progress.processed
       /\ progress.status \in Terminal => progress'.status # "running"]_vars

\* C21: when value-judgment is enabled, keep_prob lies in [0, 1], and the image
\* is recorded as valuable exactly when keep_prob is at least one half, which
\* is exactly when the keep logit is not below the drop logit.
C21_KeepProbThreshold ==
  (valueJudgment.scored > 0 /\ valueJudgment.enabled) =>
    /\ valueJudgment.valuableScore >= 0
    /\ valueJudgment.valuableScore <= Scale
    /\ valueJudgment.isValuable \in {"true", "false"}
    /\ valueJudgment.isValuable = "true" <=> 2 * valueJudgment.valuableScore >= Scale
    /\ valueJudgment.isValuable = "true" <=>
         valueJudgment.keep_logit >= valueJudgment.drop_logit

\* value-judgment is on and the two logits are equal: keep_prob is exactly one
\* half and the image is valuable
C21_Witness ==
  /\ valueJudgment.scored > 0
  /\ valueJudgment.enabled
  /\ valueJudgment.keep_logit = valueJudgment.drop_logit
  /\ valueJudgment.keep_logit # 0
  /\ 2 * valueJudgment.valuableScore = Scale
  /\ valueJudgment.isValuable = "true"

====
